---- MODULE Spec2Model ----
(***************************************************************************)
(* Model of the spotify-elo-ranker web application (src/app.py, src/elo.py) *)
(*                                                                         *)
(* The state is what the handlers of app.py read and write: the manifest   *)
(* entry and the JSON item file of one playlist, the browser session, and  *)
(* the response of the last request.  Ratings are two-decimal numbers in   *)
(* the program (elo.py rounds to 2 places); here a rating is the integer   *)
(* number of hundredths, so 1000.0 is 100000.                              *)
(*                                                                         *)
(* The playlist on the Spotify side is outside the program: what a fetch   *)
(* returns is an input of ingest_playlist, and push_playlist only writes   *)
(* to that side.  The playback routes (lines 390-508) touch neither the    *)
(* item file nor the session and are not modelled.  An item record holds   *)
(* its uri, rating and matches; the display fields (name, artist, image)   *)
(* are carried by the program but never read by a decision, and are left   *)
(* out.                                                                    *)
(***************************************************************************)
EXTENDS Integers, Sequences, FiniteSets, TLC

\* ---------------------------------------------------------------- bounds
MaxVotes == 1          \* votes applied in one behaviour
MaxTracks == 2         \* length of a fetched track list
MaxRequests == 2       \* requests in one behaviour of the threaded server
MaxEloMatches == 10    \* largest match count given to calculate_new_ratings

URIS == {"a", "b", "c"}            \* URIs of catalogue tracks
LOCAL_URIS == {"local"}            \* URIs of local files (spotify:local:...)
NoValue == ""                      \* request.form.get(...) of a missing field
FormValues == URIS \cup {NoValue}

\* ------------------------------------------------------ program constants
InitialRating == 100000            \* 1000.0
PlacementMatches == 5
KPlacement == 64
KStandard == 32
ProximityWindow == 10000           \* 100 rating points
EloDivisor == 40000                \* 400 rating points

\* ------------------------------------------------------------- elo.py
\* Fixed point: a probability p is the integer p * Scale.
Scale == 100000000
Limb == 10000

\* a * b / Scale for fixed-point a, b, without leaving 32 bits
MulFix(a, b) ==
    LET a1 == a \div Limb
        a0 == a % Limb
        b1 == b \div Limb
        b0 == b % Limb
    IN  a1 * b1 + ((a1 * b0 + a0 * b1 + ((a0 * b0) \div Limb)) \div Limb)

\* first n decimal digits of rem / y, for 0 <= rem < y
RECURSIVE DivDigits(_, _, _)
DivDigits(rem, y, n) ==
    IF n = 0 THEN 0
    ELSE ((rem * 10) \div y) * (10 ^ (n - 1)) + DivDigits((rem * 10) % y, y, n - 1)

\* 10 ** (w / 64) for w = 32, 16, 8, 4, 2, 1
PowBin == << 316227766, 177827941, 133352143, 115478198, 107460783, 103663293 >>
\* 10 ** (d * 5^(k-1) / 40000), row k = 1..4, column d = 1..4
PowQui == << << 100005757, 100011514, 100017271, 100023029 >>,
             << 100028786, 100057581, 100086384, 100115196 >>,
             << 100144015, 100288238, 100432668, 100577306 >>,
             << 100722153, 101449521, 102182141, 102920053 >> >>

RECURSIVE ApplyBin(_, _, _)
ApplyBin(p, h, k) ==
    IF k > 6 THEN p
    ELSE ApplyBin(IF (h \div (2 ^ (6 - k))) % 2 = 1 THEN MulFix(p, PowBin[k]) ELSE p,
                  h, k + 1)

RECURSIVE ApplyQui(_, _, _)
ApplyQui(p, l, k) ==
    IF k > 4 THEN p
    ELSE LET d == (l \div (5 ^ (k - 1))) % 5
         IN  ApplyQui(IF d > 0 THEN MulFix(p, PowQui[k][d]) ELSE p, l, k + 1)

\* 10 ** (r / 40000) for 0 <= r < 40000: r / 40000 = h / 64 + l / 40000
Pow10Frac(r) == ApplyQui(ApplyBin(Scale, r \div 625, 1), r % 625, 1)

Abs(x) == IF x < 0 THEN -x ELSE x

\* 1 / (1 + 10 ** ((rating_b - rating_a) / 400))
get_expected_score(rating_a, rating_b) ==
    LET d  == rating_b - rating_a
        q  == Abs(d) \div EloDivisor
        fr == Pow10Frac(Abs(d) % EloDivisor)      \* 10 ** |d|/400 is fr * 10^q
        u  == IF q <= 8 THEN Scale \div (10 ^ q) ELSE 0
        y  == (fr + u) \div 10
        x  == IF d >= 0 THEN u \div 10 ELSE fr \div 10
    IN  IF x >= y THEN Scale ELSE DivDigits(x, y, 8)

\* variant: the placement K-factor kept for one match too many
get_k_factor_late(matches_played) ==
    IF matches_played <= PlacementMatches THEN KPlacement ELSE KStandard

get_k_factor(matches_played) ==
    IF matches_played < PlacementMatches THEN KPlacement ELSE KStandard

\* round(k * x, 2) in hundredths, x a signed fixed-point number
RoundHundredths(k, x) ==
    LET ax == Abs(x)
        m  == (100 * k * (ax \div Limb)
                 + ((100 * k * (ax % Limb) + (Scale \div 2)) \div Limb)) \div Limb
    IN  IF x < 0 THEN -m ELSE m

\* actual_score_a is a fixed-point score: Scale for a win of A
calculate_new_ratings(rating_a, rating_b, actual_score_a, matches_a, matches_b) ==
    LET expected_a == get_expected_score(rating_a, rating_b)
        expected_b == Scale - expected_a
        k_a == get_k_factor(matches_a)
        k_b == get_k_factor(matches_b)
        actual_score_b == Scale - actual_score_a
    IN  << rating_a + RoundHundredths(k_a, actual_score_a - expected_a),
           rating_b + RoundHundredths(k_b, actual_score_b - expected_b) >>

\* ------------------------------------------------------------- state
VARIABLES
    manifest,    \* TRUE when the playlist has an entry in manifest.json
    dbExists,    \* TRUE when the playlist's JSON item file exists
    db,          \* content of that file: URI -> item record
    session,     \* Flask session: whether an active playlist is chosen
    resp,        \* the request just served and its response, until sent
    nvotes,      \* votes applied so far (bounded by MaxVotes)
    nreq,        \* threaded server: requests taken on so far (MaxRequests)
    thr,         \* threaded server: each worker's request in progress
    ideal,       \* threaded server: item set if requests ran one at a time
    elo          \* one evaluation of calculate_new_ratings

vars == << manifest, dbExists, db, session, resp, nvotes, nreq, thr, ideal, elo >>

EmptyDb == [u \in {} |-> 0]

Put(f, k, v) == [x \in (DOMAIN f) \cup {k} |-> IF x = k THEN v ELSE f[x]]

\* a request served and its response; a, b: the two URIs it is about;
\* fetched: the URIs of the list an ingest got from Spotify
Resp(op, kind, a, b) ==
    [op |-> op, kind |-> kind, a |-> a, b |-> b, fetched |-> {}]

\* no response on its way out: the server waits for a request
NoResponse == Resp("-", "-", "-", "-")

\* load_db: {} when the file does not exist
load_db == IF dbExists THEN db ELSE EmptyDb

\* ------------------------------------------------------ ingest_playlist
\* an entry of the fetched list: its track's URI and is_local flag.  Spotify
\* sets the flag on local files and on nothing else.  (An entry without a
\* track takes the same branch of line 258 as a local one.)
TrackEntry ==
    {[uri |-> u, is_local |-> u \in LOCAL_URIS] : u \in URIS \cup LOCAL_URIS}
TrackLists == UNION {[1..n -> TrackEntry] : n \in 0..MaxTracks}

NewItem(track) ==
    [uri |-> track.uri, rating |-> InitialRating, matches |-> 0]

\* variant: a track already stored is skipped instead of carried over
IngestTrackSkipKnown(old_db, new_db, track) ==
    IF track.is_local \/ track.uri \in DOMAIN old_db THEN new_db
    ELSE Put(new_db, track.uri, NewItem(track))

\* variant: every fetched track gets a fresh record
IngestTrackReinit(old_db, new_db, track) ==
    IF track.is_local THEN new_db
    ELSE Put(new_db, track.uri, NewItem(track))

\* one iteration of the loop over the fetched tracks (lines 256-275)
IngestTrack(old_db, new_db, track) ==
    IF track.is_local THEN new_db
    ELSE IF track.uri \in DOMAIN old_db
         THEN Put(new_db, track.uri, old_db[track.uri])
         ELSE Put(new_db, track.uri, NewItem(track))

RECURSIVE IngestLoop(_, _, _, _)
IngestLoop(old_db, new_db, tracks, i) ==
    IF i > Len(tracks) THEN new_db
    ELSE IngestLoop(old_db, IngestTrack(old_db, new_db, tracks[i]), tracks, i + 1)

IngestResult(old_db, tracks) == IngestLoop(old_db, EmptyDb, tracks, 1)

\* ------------------------------------------------------------ rank POST
\* the guard of line 302
VoteAccepted(d, winner, loser) ==
    /\ winner # NoValue
    /\ loser # NoValue
    /\ winner \in DOMAIN d
    /\ loser \in DOMAIN d

\* lines 303-310, the four assignments in order
VoteResult(d, winner, loser) ==
    LET new == calculate_new_ratings(d[winner].rating, d[loser].rating, Scale,
                                     d[winner].matches, d[loser].matches)
        d1 == [d  EXCEPT ![winner].rating = new[1]]
        d2 == [d1 EXCEPT ![winner].matches = d1[winner].matches + 1]
        d3 == [d2 EXCEPT ![loser].rating = new[2]]
        d4 == [d3 EXCEPT ![loser].matches = d3[loser].matches + 1]
    IN  d4

\* ------------------------------------------------------------- rank GET
OrderedPairs(S) == {p \in S \X S : p[1] # p[2]}

\* variant: two independent draws (random.choices)
Sample2WithReplacement(population) == population \X population

\* random.sample(population, 2): two different positions of the list
Sample2(population) == OrderedPairs(population)

\* line 320
ZeroMatches(d) == {u \in DOMAIN d : d[u].matches = 0}

\* variant: threshold off by one
CalibrationInclusive(d) == {u \in DOMAIN d : d[u].matches <= PlacementMatches}

\* line 321
Calibration(d) == {u \in DOMAIN d : d[u].matches < PlacementMatches}

\* variant: window closed at 100 points
CandidatesInclusive(d, id_a) ==
    {u \in DOMAIN d : u # id_a /\ Abs(d[u].rating - d[id_a].rating) <= ProximityWindow}

\* line 333
Candidates(d, id_a) ==
    {u \in DOMAIN d : u # id_a /\ Abs(d[u].rating - d[id_a].rating) < ProximityWindow}

\* variant: the calibration tier tested before the single cold-start item
MatchmakingCalibrationFirst(d) ==
    LET uris == DOMAIN d
        zero_matches == ZeroMatches(d)
        calibration == Calibration(d)
    IN  IF Cardinality(zero_matches) >= 2 THEN Sample2(zero_matches)
        ELSE IF Cardinality(calibration) >= 2 THEN Sample2(calibration)
        ELSE IF Cardinality(zero_matches) = 1
             THEN {<<id_a, id_b>> \in zero_matches \X uris : id_b # id_a}
        ELSE UNION { IF Candidates(d, id_a) # {}
                     THEN {<<id_a, id_b>> : id_b \in Candidates(d, id_a)}
                     ELSE {<<id_a, id_b>> : id_b \in uris \ {id_a}}
                   : id_a \in uris }

\* the pairs <<id_a, id_b>> the matchmaking of lines 320-337 can produce
Matchmaking(d) ==
    LET uris == DOMAIN d
        zero_matches == ZeroMatches(d)
        calibration == Calibration(d)
    IN  IF Cardinality(zero_matches) >= 2 THEN Sample2(zero_matches)
        ELSE IF Cardinality(zero_matches) = 1
             THEN {<<id_a, id_b>> \in zero_matches \X uris : id_b # id_a}
        ELSE IF Cardinality(calibration) >= 2 THEN Sample2(calibration)
        ELSE UNION { IF Candidates(d, id_a) # {}
                     THEN {<<id_a, id_b>> : id_b \in Candidates(d, id_a)}
                     ELSE {<<id_a, id_b>> : id_b \in uris \ {id_a}}
                   : id_a \in uris }

\* ----------------------------------------------------------- reset_elos
ResetResult(d) ==
    LET songs_list == {[d[u] EXCEPT !.rating = InitialRating, !.matches = 0] : u \in DOMAIN d}
    IN  [k \in {song.uri : song \in songs_list} |->
            CHOOSE song \in songs_list : song.uri = k]

\* ------------------------------------------------- state at process start
\* The data directory outlives the process: the server starts either with
\* no data, or with the file an earlier run left.  PersistedDb is such a
\* file: three tracks ingested, then six votes.
Track(u) == [uri |-> u, is_local |-> FALSE]

RECURSIVE Replay(_, _, _)
Replay(d, votes, i) ==
    IF i > Len(votes) THEN d
    ELSE Replay(VoteResult(d, votes[i][1], votes[i][2]), votes, i + 1)

PersistedDb ==
    Replay(IngestResult(EmptyDb, << Track("a"), Track("b"), Track("c") >>),
           << <<"a", "b">>, <<"c", "b">>, <<"a", "c">>,
              <<"b", "a">>, <<"c", "a">>, <<"b", "a">> >>, 1)

Threads == {1, 2}
Idle == [pc |-> "idle", op |-> "-", db |-> EmptyDb, a |-> "-", b |-> "-"]
EloIdle == [ra |-> 0, rb |-> 0, sa |-> 0, ma |-> 0, mb |-> 0,
            na |-> 0, nb |-> 0, done |-> FALSE]

InitFiles ==
    \/ manifest = FALSE /\ dbExists = FALSE /\ db = EmptyDb
    \/ manifest = TRUE /\ dbExists = TRUE /\ db = PersistedDb

Init ==
    /\ InitFiles
    /\ session = [active |-> FALSE]
    /\ resp = NoResponse
    /\ nvotes = 0
    /\ nreq = 0
    /\ thr = [t \in Threads |-> Idle]
    /\ ideal = db
    /\ elo = EloIdle

\* ------------------------------------------- handlers, one request at a time
\* The cached OAuth token lives in the session as well, but whether
\* validate_token accepts it is decided by spotipy and the clock: `valid` is
\* an input of the handlers that ask.  A handler starts when the response of
\* the request before it has gone out.
Unused == << nreq, thr, ideal, elo >>

\* add_playlist (lines 102-139); found: sp.playlist(playlist_id) succeeded
add_playlist(valid, found) ==
    /\ resp = NoResponse
    /\ IF ~valid
       THEN /\ resp' = Resp("add_playlist", "login", "-", "-")
            /\ UNCHANGED << manifest, dbExists, db >>
       ELSE IF ~found
       THEN /\ resp' = Resp("add_playlist", "error", "-", "-")
            /\ UNCHANGED << manifest, dbExists, db >>
       ELSE /\ manifest' = TRUE
            /\ dbExists' = TRUE
            /\ db' = load_db
            /\ resp' = Resp("add_playlist", "lobby", "-", "-")
    /\ UNCHANGED << session, nvotes, Unused >>

\* delete_playlist (lines 142-164); removed: os.remove did not raise OSError
delete_playlist(removed) ==
    /\ resp = NoResponse
    /\ manifest' = FALSE
    /\ IF dbExists /\ removed
       THEN dbExists' = FALSE /\ db' = EmptyDb
       ELSE UNCHANGED << dbExists, db >>
    /\ session' = [session EXCEPT !.active = FALSE]
    /\ resp' = Resp("delete_playlist", "lobby", "-", "-")
    /\ UNCHANGED << nvotes, Unused >>

\* select_playlist (lines 167-176)
select_playlist ==
    /\ resp = NoResponse
    /\ IF manifest
       THEN /\ session' = [session EXCEPT !.active = TRUE]
            /\ resp' = Resp("select_playlist", "dashboard", "-", "-")
       ELSE /\ resp' = Resp("select_playlist", "404", "-", "-")
            /\ UNCHANGED session
    /\ UNCHANGED << manifest, dbExists, db, nvotes, Unused >>

\* logout (lines 212-215)
logout ==
    /\ resp = NoResponse
    /\ session' = [active |-> FALSE]
    /\ resp' = Resp("logout", "lobby", "-", "-")
    /\ UNCHANGED << manifest, dbExists, db, nvotes, Unused >>

\* callback (lines 218-228); code: the request carries ?code=
callback(code) ==
    /\ resp = NoResponse
    /\ resp' = Resp("callback", IF code /\ session.active THEN "ingest" ELSE "lobby",
                    "-", "-")
    /\ UNCHANGED << manifest, dbExists, db, session, nvotes, Unused >>

\* ingest_playlist (lines 231-278); fetched: sp.playlist_items did not raise
ingest_playlist(valid, fetched, tracks) ==
    /\ resp = NoResponse
    /\ IF ~session.active
       THEN /\ resp' = Resp("ingest", "lobby", "-", "-")
            /\ UNCHANGED << dbExists, db >>
       ELSE IF ~valid
       THEN /\ resp' = Resp("ingest", "login", "-", "-")
            /\ UNCHANGED << dbExists, db >>
       ELSE IF ~fetched
       THEN /\ resp' = Resp("ingest", "error", "-", "-")
            /\ UNCHANGED << dbExists, db >>
       ELSE /\ db' = IngestResult(load_db, tracks)
            /\ dbExists' = TRUE
            /\ resp' = [Resp("ingest", "dashboard", "-", "-")
                           EXCEPT !.fetched = {tracks[i].uri : i \in 1..Len(tracks)}]
    /\ UNCHANGED << manifest, session, nvotes, Unused >>

\* rank, method GET (lines 282-291, 319-339)
rank_get ==
    /\ resp = NoResponse
    /\ IF ~session.active
       THEN resp' = Resp("rank", "lobby", "-", "-")
       ELSE IF Cardinality(DOMAIN load_db) < 2
       THEN resp' = Resp("rank", "not_enough", "-", "-")
       ELSE \E pair \in Matchmaking(load_db) :
                resp' = Resp("rank", "pair", pair[1], pair[2])
    /\ UNCHANGED << manifest, dbExists, db, session, nvotes, Unused >>

\* rank, method POST (lines 282-317)
rank_post(next_match, winner, loser, xhr) ==
    /\ resp = NoResponse
    /\ IF ~session.active
       THEN /\ resp' = Resp("rank_post", "lobby", "-", "-")
            /\ UNCHANGED << dbExists, db, nvotes >>
       ELSE IF Cardinality(DOMAIN load_db) < 2
       THEN /\ resp' = Resp("rank_post", "not_enough", "-", "-")
            /\ UNCHANGED << dbExists, db, nvotes >>
       ELSE IF next_match
       THEN /\ resp' = Resp("next_match", "rank", "-", "-")
            /\ UNCHANGED << dbExists, db, nvotes >>
       ELSE IF VoteAccepted(load_db, winner, loser)
       THEN /\ nvotes < MaxVotes
            /\ db' = VoteResult(load_db, winner, loser)
            /\ dbExists' = TRUE
            /\ nvotes' = nvotes + 1
            /\ resp' = Resp("vote", IF xhr THEN "json" ELSE "rank", winner, loser)
       ELSE /\ resp' = Resp("vote", "rank", winner, loser)
            /\ UNCHANGED << dbExists, db, nvotes >>
    /\ UNCHANGED << manifest, session, Unused >>

\* push_playlist (lines 342-367): reads the item file, writes to Spotify only
push_playlist(valid) ==
    /\ resp = NoResponse
    /\ resp' = Resp("push",
                    IF ~session.active THEN "lobby"
                    ELSE IF ~valid THEN "login" ELSE "dashboard",
                    "-", "-")
    /\ UNCHANGED << manifest, dbExists, db, session, nvotes, Unused >>

\* reset_elos (lines 370-385)
reset_elos ==
    /\ resp = NoResponse
    /\ IF ~session.active
       THEN /\ resp' = Resp("reset", "lobby", "-", "-")
            /\ UNCHANGED << dbExists, db >>
       ELSE /\ db' = ResetResult(load_db)
            /\ dbExists' = TRUE
            /\ resp' = Resp("reset", "dashboard", "-", "-")
    /\ UNCHANGED << manifest, session, nvotes, Unused >>

\* the development server sends the response and waits for the next request
\* (line 512)
send_response ==
    /\ resp # NoResponse
    /\ resp' = NoResponse
    /\ UNCHANGED << manifest, dbExists, db, session, nvotes, Unused >>

\* The inputs a handler does not look at are not enumerated.
Next ==
    \/ send_response
    \/ \E valid, found \in BOOLEAN : add_playlist(valid, found)
    \/ \E removed \in BOOLEAN : delete_playlist(removed)
    \/ select_playlist
    \/ logout
    \/ \E code \in BOOLEAN : callback(code)
    \/ ingest_playlist(FALSE, FALSE, << >>)
    \/ ingest_playlist(TRUE, FALSE, << >>)
    \/ \E tracks \in (IF session.active THEN TrackLists ELSE {<< >>}) :
           ingest_playlist(TRUE, TRUE, tracks)
    \/ rank_get
    \/ rank_post(TRUE, NoValue, NoValue, FALSE)
    \/ \E winner, loser \in (IF session.active THEN FormValues ELSE {NoValue}) :
           \E xhr \in (IF VoteAccepted(load_db, winner, loser) THEN BOOLEAN ELSE {FALSE}) :
               rank_post(FALSE, winner, loser, xhr)
    \/ \E valid \in BOOLEAN : push_playlist(valid)
    \/ reset_elos

Spec == Init /\ [][Next]_vars

\* ------------------------------------------------ the threaded server
\* app.run (line 512) starts Flask's development server, which serves each
\* request on a thread of its own, and no handler takes a lock.  A handler
\* that rewrites the item file reads it with load_db, computes, and writes
\* it with save_db; a thread switch can fall between the two.  Each such
\* handler is therefore two steps here: the load and the save.
\* `ideal` follows the saves: it is the item set the same requests produce
\* when each one runs alone, in the order of their saves.

\* what rank POST does to an item set when it runs alone
SerialVote(d, winner, loser) ==
    IF Cardinality(DOMAIN d) >= 2 /\ VoteAccepted(d, winner, loser)
    THEN VoteResult(d, winner, loser)
    ELSE d

Loaded(t, op, a, b) ==
    /\ nreq < MaxRequests
    /\ nreq' = nreq + 1
    /\ thr' = [thr EXCEPT ![t] = [pc |-> "loaded", op |-> op, db |-> load_db,
                               a |-> a, b |-> b]]

Return(t) == thr' = [thr EXCEPT ![t] = Idle]

\* rank POST up to line 300: load_db, the size check, the form fields
t_vote_load(t, winner, loser) ==
    /\ thr[t].pc = "idle"
    /\ session.active
    /\ Cardinality(DOMAIN load_db) >= 2
    /\ Loaded(t, "vote", winner, loser)
    /\ UNCHANGED << manifest, dbExists, db, session, resp, nvotes, ideal, elo >>

\* rank POST lines 302-317
t_vote_save(t) ==
    /\ thr[t].pc = "loaded" /\ thr[t].op = "vote"
    /\ IF VoteAccepted(thr[t].db, thr[t].a, thr[t].b)
       THEN /\ db' = VoteResult(thr[t].db, thr[t].a, thr[t].b)
            /\ dbExists' = TRUE
       ELSE UNCHANGED << dbExists, db >>
    /\ ideal' = SerialVote(ideal, thr[t].a, thr[t].b)
    /\ Return(t)
    /\ UNCHANGED << manifest, session, resp, nvotes, nreq, elo >>

\* ingest_playlist up to line 244, the token being valid
t_ingest_load(t) ==
    /\ thr[t].pc = "idle"
    /\ session.active
    /\ Loaded(t, "ingest", "-", "-")
    /\ UNCHANGED << manifest, dbExists, db, session, resp, nvotes, ideal, elo >>

\* ingest_playlist lines 246-278, the fetch having succeeded
t_ingest_save(t, tracks) ==
    /\ thr[t].pc = "loaded" /\ thr[t].op = "ingest"
    /\ db' = IngestResult(thr[t].db, tracks)
    /\ dbExists' = TRUE
    /\ ideal' = IngestResult(ideal, tracks)
    /\ Return(t)
    /\ UNCHANGED << manifest, session, resp, nvotes, nreq, elo >>

\* ingest_playlist lines 246-249, the fetch having raised
t_ingest_fail(t) ==
    /\ thr[t].pc = "loaded" /\ thr[t].op = "ingest"
    /\ Return(t)
    /\ UNCHANGED << manifest, dbExists, db, session, resp, nvotes, nreq, ideal, elo >>

\* reset_elos up to line 375
t_reset_load(t) ==
    /\ thr[t].pc = "idle"
    /\ session.active
    /\ Loaded(t, "reset", "-", "-")
    /\ UNCHANGED << manifest, dbExists, db, session, resp, nvotes, ideal, elo >>

\* reset_elos lines 376-385
t_reset_save(t) ==
    /\ thr[t].pc = "loaded" /\ thr[t].op = "reset"
    /\ db' = ResetResult(thr[t].db)
    /\ dbExists' = TRUE
    /\ ideal' = ResetResult(ideal)
    /\ Return(t)
    /\ UNCHANGED << manifest, session, resp, nvotes, nreq, elo >>

\* the server after add_playlist, callback and select_playlist
InitThreaded ==
    /\ manifest = TRUE
    /\ dbExists = TRUE
    /\ db \in {EmptyDb, PersistedDb}
    /\ session = [active |-> TRUE]
    /\ resp = NoResponse
    /\ nvotes = 0
    /\ nreq = 0
    /\ thr = [t \in Threads |-> Idle]
    /\ ideal = db
    /\ elo = EloIdle

NextThreaded ==
    \E t \in Threads :
        \/ \E winner, loser \in FormValues : t_vote_load(t, winner, loser)
        \/ t_vote_save(t)
        \/ t_ingest_load(t)
        \/ \E tracks \in TrackLists : t_ingest_save(t, tracks)
        \/ t_ingest_fail(t)
        \/ t_reset_load(t)
        \/ t_reset_save(t)

SpecThreaded == InitThreaded /\ [][NextThreaded]_vars

\* ------------------------------------- calculate_new_ratings on its own
EloRatings == {-1600, 0, 98400, 100000, 101600, 103200, 250000}
EloScores == {0, Scale \div 2, Scale}

InitElo ==
    /\ manifest = FALSE /\ dbExists = FALSE /\ db = EmptyDb
    /\ session = [active |-> FALSE]
    /\ resp = NoResponse
    /\ nvotes = 0
    /\ nreq = 0
    /\ thr = [t \in Threads |-> Idle]
    /\ ideal = db
    /\ elo \in [ra : EloRatings, rb : EloRatings, sa : EloScores,
                ma : 0..MaxEloMatches, mb : 0..MaxEloMatches,
                na : {0}, nb : {0}, done : {FALSE}]

EloApply ==
    /\ ~elo.done
    /\ LET new == calculate_new_ratings(elo.ra, elo.rb, elo.sa, elo.ma, elo.mb)
       IN  elo' = [elo EXCEPT !.na = new[1], !.nb = new[2], !.done = TRUE]
    /\ UNCHANGED << manifest, dbExists, db, session, resp, nvotes, nreq, thr, ideal >>

NextElo == EloApply

SpecElo == InitElo /\ [][NextElo]_vars

\* ================================================================ claims
\* Shorthands over the state reached by a request (written out, not taken
\* from the operators above).
Paired == resp.op = "rank" /\ resp.kind = "pair"
NumZero == Cardinality({u \in DOMAIN db : db[u].matches = 0})
NumPlacement == Cardinality({u \in DOMAIN db : db[u].matches < 5})
Gap(u, v) == IF db[u].rating >= db[v].rating
             THEN db[u].rating - db[v].rating
             ELSE db[v].rating - db[u].rating
Within(u) == {v \in DOMAIN db : v # u /\ Gap(u, v) < 10000}

\* C1: the pair shown by rank GET consists of two different identities, both
\* keys of the item set, whichever tier selected them.
C1_DistinctPair ==
    Paired => /\ resp.a \in DOMAIN db
              /\ resp.b \in DOMAIN db
              /\ resp.a # resp.b

\* C1 happens in the last tier: no cold-start or calibration pair, and nobody
\* within 100 points of item A.
C1_Witness ==
    /\ Paired
    /\ Cardinality(DOMAIN db) >= 2
    /\ NumZero = 0 /\ NumPlacement < 2
    /\ Within(resp.a) = {}

\* C2: with k >= 1 items of matchCount 0 in the set, the pair holds min(k, 2)
\* of them: both selected items when k >= 2, the single one when k = 1.
C2_ColdStartPriority ==
    Paired =>
        /\ NumZero >= 2 => db[resp.a].matches = 0 /\ db[resp.b].matches = 0
        /\ NumZero = 1 => db[resp.a].matches = 0 \/ db[resp.b].matches = 0

\* C2 happens with exactly one zero-match item next to two played items that
\* are still in calibration.
C2_Witness ==
    /\ Paired
    /\ NumZero = 1
    /\ NumPlacement = 3
    /\ db[resp.a].matches = 0

\* C3 (as claimed): a vote naming two stored identities raises the matchCount
\* of the winner and of the loser by exactly 1 and changes no other item.
C3_VoteCountsOnce ==
    [][ (resp'.op = "vote" /\ VoteAccepted(db, resp'.a, resp'.b)) =>
            /\ DOMAIN db' = DOMAIN db
            /\ db'[resp'.a].matches = db[resp'.a].matches + 1
            /\ db'[resp'.b].matches = db[resp'.b].matches + 1
            /\ \A u \in DOMAIN db \ {resp'.a, resp'.b} : db'[u] = db[u] ]_vars

\* C4 (as claimed): a vote naming an identity that is not stored is answered
\* with UnknownItemError and changes nothing.
C4_UnknownItemError ==
    [][ ( /\ resp'.op = "vote"
          /\ resp'.a # NoValue /\ resp'.b # NoValue
          /\ (resp'.a \notin DOMAIN db \/ resp'.b \notin DOMAIN db) ) =>
            /\ resp'.kind = "UnknownItemError"
            /\ db' = db /\ dbExists' = dbExists ]_vars

\* C5: at equal ratings R and a win of A, A ends at R + K_a/2 and B at
\* R - K_b/2, K being 64 below 5 matches and 32 from 5 on.
C5_EqualRatings ==
    (elo.done /\ elo.ra = elo.rb /\ elo.sa = Scale) =>
        /\ elo.na = elo.ra + 50 * (IF elo.ma < 5 THEN 64 ELSE 32)
        /\ elo.nb = elo.rb - 50 * (IF elo.mb < 5 THEN 64 ELSE 32)

\* C5 happens on the example: 1000 against 1000, 0 and 10 matches.
C5_Witness ==
    /\ elo.done /\ elo.sa = Scale
    /\ elo.ra = 100000 /\ elo.rb = 100000
    /\ elo.ma = 0 /\ elo.mb = 10
    /\ elo.na = 103200 /\ elo.nb = 98400

\* C6: with no zero-match item and at least two items below 5 matches, both
\* selected items are below 5 matches.
C6_CalibrationTier ==
    (Paired /\ NumZero = 0 /\ NumPlacement >= 2) =>
        db[resp.a].matches < 5 /\ db[resp.b].matches < 5

\* C6 happens while the set also holds an item with 5 matches or more.
C6_Witness ==
    /\ Paired
    /\ NumZero = 0 /\ NumPlacement >= 2
    /\ \E u \in DOMAIN db : db[u].matches >= 5

\* C7: with no zero-match item and fewer than two items below 5 matches,
\* item B is within 100 points of A (strictly) whenever some other item is;
\* otherwise B is some other item.
C7_Proximity ==
    (Paired /\ NumZero = 0 /\ NumPlacement < 2) =>
        /\ resp.b \in DOMAIN db \ {resp.a}
        /\ Within(resp.a) # {} => resp.b \in Within(resp.a)

\* C7 happens with one item exactly 100 points from A and another one closer.
C7_Witness ==
    /\ Paired
    /\ NumZero = 0 /\ NumPlacement < 2
    /\ \E u \in DOMAIN db : u # resp.a /\ Gap(resp.a, u) = 10000
    /\ resp.b \in Within(resp.a)

\* C8 (as claimed): once every request has finished, the stored item set is
\* the one the requests produce when run one at a time: no vote is lost.
C8_NoLostUpdate ==
    (\A t \in Threads : thr[t].pc = "idle") => db = ideal

\* C9 (as claimed): ingest, vote, next-match, reset and push never remove an
\* identity from the item set.
C9_NeverRemoved ==
    [][ resp'.op \in {"ingest", "vote", "next_match", "rank_post", "reset", "push"}
            => DOMAIN db \subseteq DOMAIN db' ]_vars

\* C9 (amended): an identity leaves the item set only by delete_playlist or
\* by an ingest whose fetched list does not hold it.
C9_RemovedByDeleteOrIngest ==
    [][ \A u \in DOMAIN db \ DOMAIN db' :
            \/ resp'.op = "delete_playlist"
            \/ /\ resp'.op = "ingest" /\ resp'.kind = "dashboard"
               /\ u \notin resp'.fetched ]_vars

\* C9 happens when an ingest has kept one rated item of three and dropped
\* the others.
C9_Witness ==
    /\ resp.op = "ingest" /\ resp.kind = "dashboard"
    /\ Cardinality(DOMAIN db) = 1
    /\ \E u \in DOMAIN db : db[u].matches >= 5 /\ u \in resp.fetched

\* C10 (as claimed): every track identity the fetch returns is in the item
\* set after ingest, with its former rating and matchCount if it was stored
\* and with 1000.0 and 0 if it was not.
C10_EveryFetchedTrack ==
    [][ (resp'.op = "ingest" /\ resp'.kind = "dashboard") =>
            \A u \in resp'.fetched :
                /\ u \in DOMAIN db'
                /\ IF u \in DOMAIN db
                   THEN /\ db'[u].rating = db[u].rating
                        /\ db'[u].matches = db[u].matches
                   ELSE /\ db'[u].rating = 100000
                        /\ db'[u].matches = 0 ]_vars

\* C10 (amended): the same for every fetched identity that is not a local
\* file.
C10_EveryNonLocalTrack ==
    [][ (resp'.op = "ingest" /\ resp'.kind = "dashboard") =>
            \A u \in resp'.fetched \ LOCAL_URIS :
                /\ u \in DOMAIN db'
                /\ IF u \in DOMAIN db
                   THEN /\ db'[u].rating = db[u].rating
                        /\ db'[u].matches = db[u].matches
                   ELSE /\ db'[u].rating = 100000
                        /\ db'[u].matches = 0 ]_vars

\* C10 happens when an ingest has fetched two tracks, one stored before with
\* a rating of its own and one new.
C10_Witness ==
    /\ resp.op = "ingest" /\ resp.kind = "dashboard"
    /\ resp.fetched = DOMAIN db
    /\ \E u \in DOMAIN db : db[u].matches >= 5 /\ db[u].rating # 100000
    /\ \E u \in DOMAIN db : db[u].matches = 0 /\ db[u].rating = 100000

====
